---------------------------- MODULE Spec2Model ----------------------------
(***************************************************************************)
(* A model of the FLIP/PIC fluid core of PhiFlow:                          *)
(*   phi/physics/flip.py        make_incompressible, accessible_mask,      *)
(*                              map_velocity_to_particles,                 *)
(*                              respect_boundaries                         *)
(*   phi/physics/field/mask.py  GeometryMask.sample_at                     *)
(*                                                                         *)
(* Space is one-dimensional.  A centered grid over NumCells cells is a     *)
(* function on Cells, a staggered grid a function on Faces (face f lies    *)
(* between cells f-1 and f).  Field values are integers: one unit of the   *)
(* model stands for a fixed fraction of the physical unit, chosen so that  *)
(* the means taken by extrapolation and by linear interpolation are exact. *)
(* Positions are counted in half cells.                                    *)
(***************************************************************************)
EXTENDS Integers, Sequences, FiniteSets, TLC

\* ------------------------------------------------------------------ bounds
NumCells == 2

Cells == 0 .. (NumCells - 1)

Faces == 0 .. NumCells

HalfPositions == 0 .. (2 * NumCells - 1)

\* a name not bound yet
None == "None"

\* An optional argument is a sequence: empty for Python's None, else of the
\* one value given.
Nothing == <<>>

Some(x) == <<x>>

IsNone(opt) == opt = <<>>

\* ------------------------------------------------------- integer helpers
Abs(x) == IF x < 0 THEN -x ELSE x

Max2(a, b) == IF a >= b THEN a ELSE b

Min2(a, b) == IF a <= b THEN a ELSE b

RECURSIVE SumOver(_, _)
SumOver(f, S) ==
    IF S = {} THEN 0
    ELSE LET x == CHOOSE y \in S : TRUE IN f[x] + SumOver(f, S \ {x})

RECURSIVE Gcd(_, _)
Gcd(a, b) == IF b = 0 THEN a ELSE Gcd(b, a % b)

RECURSIVE LcmUpTo(_)
\* the least common multiple of 1 .. n
LcmUpTo(n) ==
    IF n = 1 THEN 1
    ELSE LET l == LcmUpTo(n - 1) IN (l * n) \div Gcd(l, n)

\* The velocities of the projection are multiples of VelUnit.  The mean of two
\* neighbours taken by the extrapolation halves them, and the exact pressure
\* of a run of k cells divides by k or k + 1: on such velocities every exact
\* pressure and every projected velocity is an integer.
VelUnit == 2 * LcmUpTo(NumCells + 1)

VelValues == {-VelUnit, 0, VelUnit}

\* ------------------------------------------- the field / grid collaborator
\* field arithmetic: elementwise product and difference of two grids
MulGrid(a, b) == [i \in DOMAIN a |-> a[i] * b[i]]

SubGrid(a, b) == [i \in DOMAIN a |-> a[i] - b[i]]

\* math.divide_no_nan(x, x): 1 where x is nonzero, 0 elsewhere
Binarize(m) == [i \in DOMAIN m |-> IF m[i] # 0 THEN 1 ELSE 0]

\* extrapolate_valid(grid, valid, 1): a valid sample keeps its value, an
\* invalid sample next to valid ones takes the mean of its valid neighbours,
\* any other sample keeps its value.
ExtrapolateValid(values, valid) ==
    LET D == DOMAIN values
        v == Binarize(valid)
        Nb(i) == {j \in D : Abs(j - i) <= 1 /\ v[j] = 1}
    IN [i \in D |->
          IF v[i] = 1 \/ Nb(i) = {} THEN values[i]
          ELSE SumOver(values, Nb(i)) \div Cardinality(Nb(i))]

\* field.divergence of a staggered grid: a centered grid
Divergence(v) == [c \in Cells |-> v[c + 1] - v[c]]

\* field.spatial_gradient(p, type=StaggeredGrid): the pressure is padded with
\* zero beyond the domain (the pressure extrapolation of an open boundary)
SpatialGradient(p) ==
    LET pad(c) == IF c \in Cells THEN p[c] ELSE 0
    IN [f \in Faces |-> pad(f) - pad(f - 1)]

\* field.where(mask, a, b)
Where(mask, a, b) == [i \in DOMAIN mask |-> IF mask[i] # 0 THEN a[i] ELSE b[i]]

\* CenteredGrid(points, ...): 1 in every cell that holds a particle
RasterCentered(pts) ==
    [c \in Cells |-> IF \E h \in pts : h \div 2 = c THEN 1 ELSE 0]

\* StaggeredGrid(points, ...): 1 at every face whose dual cell holds a particle
RasterStaggered(pts) ==
    [f \in Faces |-> IF \E h \in pts : (h + 1) \div 2 = f THEN 1 ELSE 0]


\* ----------------------------------------------------- the geometry collaborator
\* A geometry is the closed interval [lo, hi] of positions (in half cells).
Geometry(lo, hi) == [lo |-> lo, hi |-> hi]

\* An element of an obstacle list is an Obstacle object holding a geometry, or
\* a Geometry object itself; the model keeps the class in kind and, for both,
\* the shape in geometry.
Obstacle(g) == [kind |-> "Obstacle", geometry |-> g]

GeometryObject(g) == [kind |-> "Geometry", geometry |-> g]

\* geometry.value_at(x): the indicator of the geometry
ValueAt(g, x) == IF g.lo <= x /\ x <= g.hi THEN 1 ELSE 0

\* union(geometries).value_at(x): the pointwise maximum of the indicators
UnionValueAt(gs, x) == IF \E i \in DOMAIN gs : ValueAt(gs[i], x) = 1 THEN 1 ELSE 0

\* the position of the centre of cell c, in half cells
CellCenter(c) == 2 * c + 1

\* field.stagger(mask, math.minimum, ZERO): a face takes the minimum of its
\* two cells, a cell beyond the domain counting as 0
Stagger(mask) ==
    LET pad(c) == IF c \in Cells THEN mask[c] ELSE 0
    IN [f \in Faces |-> Min2(pad(f - 1), pad(f))]

\* ------------------------------------------------------ Python type objects
ClassOf(name) == [kind |-> "class", name |-> name]

InstanceOf(name) == [kind |-> "instance", name |-> name]

\* isinstance(obj, classes): true of an instance of one of the classes; a class
\* object is an instance of `type`, never of the class it denotes
IsInstance(obj, classes) == obj.kind = "instance" /\ obj.name \in classes

\* ---------------------------------------------------------- flip.accessible_mask
\* line 150: assert isinstance(type, (CenteredGrid, StaggeredGrid))
TypeCheck(type) == IsInstance(type, {"CenteredGrid", "StaggeredGrid"})

\* lines 149-152.  warned: the DeprecationWarning of line 149 was emitted;
\* raised: the assertion of line 150 failed; mask: the value returned.
accessible_mask(not_accessible, type) ==
    LET centered == [c \in Cells |-> 1 - UnionValueAt(not_accessible, CellCenter(c))]
    IN [warned |-> TRUE,
        raised |-> ~TypeCheck(type),
        mask   |-> IF ~TypeCheck(type) THEN None
                   ELSE IF type = ClassOf("StaggeredGrid") THEN Stagger(centered)
                   ELSE centered]

\* -------------------------------------------------------- flip.make_incompressible
\* lines 55-56 with the gradient left unmasked (a mutant of matrix_eq)
matrix_eq_unmasked(p, occupied_centered, accessible) ==
    Where(occupied_centered, Divergence(SpatialGradient(p)), p)

\* lines 55-56: matrix_eq(p)
matrix_eq(p, occupied_centered, accessible) ==
    Where(occupied_centered,
          Divergence(MulGrid(SpatialGradient(p), accessible)),
          p)

\* the centered field that is 1 in cell j and 0 elsewhere
UnitField(j) == [c \in Cells |-> IF c = j THEN 1 ELSE 0]

ZeroField == [c \in Cells |-> 0]

RECURSIVE Tabulate(_, _)
\* the function f restricted to S, with every value computed once
Tabulate(f, S) ==
    IF S = {} THEN <<>>
    ELSE LET x == CHOOSE y \in S : TRUE
         IN (x :> f[x]) @@ Tabulate(f, S \ {x})

\* the matrix of the linear operator matrix_eq: entry [r][j] is row r of
\* matrix_eq applied to the unit field of cell j
OperatorMatrix(occupied_centered, accessible) ==
    LET column == Tabulate([j \in Cells |->
                                matrix_eq(UnitField(j), occupied_centered, accessible)],
                           Cells)
    IN Tabulate([r \in Cells |-> Tabulate([j \in Cells |-> column[j][r]], Cells)],
                Cells)

\* The null space of matrix_eq: the indicator of every run of occupied cells
\* closed off by blocked faces, on which the pressure is determined only up
\* to a constant.
NullFields(occupied_centered, accessible) ==
    LET Null == {z \in [Cells -> {0, 1}] :
                    /\ z # ZeroField
                    /\ matrix_eq(z, occupied_centered, accessible) = ZeroField}
    IN {z \in Null :
           ~ \E y \in Null : y # z /\ \A c \in Cells : y[c] <= z[c]}

\* the sequence s without its k-th element
Without(s, k) == SubSeq(s, 1, k - 1) \o SubSeq(s, k + 1, Len(s))

RECURSIVE Det(_, _, _)
\* the determinant of the rows and columns of M listed in rows and cols
Det(M, rows, cols) ==
    IF rows = <<>> THEN 1
    ELSE LET K == 1 .. Len(cols)
             term == [k \in K |->
                        (IF k % 2 = 1 THEN 1 ELSE -1)
                        * M[rows[1]][cols[k]]
                        * Det(M, Tail(rows), Without(cols, k))]
         IN SumOver(term, K)

CellSeq == [i \in 1 .. NumCells |-> i - 1]

\* field.solve_linear(matrix_eq, div, solve) from the initial guess 0 of line
\* 60: the pressure p with matrix_eq(p) = rhs that has no component in the
\* null space of matrix_eq (the iteration starts at 0 and never adds one).
\* The relative tolerance 1e-5 of line 17 is far below one unit of the model,
\* so the pressure accepted is the exact one.  It is computed by Cramer's
\* rule on the operator's matrix, made regular by adding z z^T for every
\* null field z; the set is empty when no such field of integers exists.
SolveLinear(rhs, occupied_centered, accessible) ==
    LET A == OperatorMatrix(occupied_centered, accessible)
        Z == NullFields(occupied_centered, accessible)
        R == Tabulate([r \in Cells |->
                Tabulate([j \in Cells |->
                    A[r][j] + Cardinality({z \in Z : z[r] = 1 /\ z[j] = 1})],
                    Cells)], Cells)
        Rj(j) == Tabulate([r \in Cells |->
                    Tabulate([c \in Cells |-> IF c = j THEN rhs[r] ELSE R[r][c]],
                             Cells)], Cells)
        d == Det(R, CellSeq, CellSeq)
        num == Tabulate([j \in Cells |-> Det(Rj(j), CellSeq, CellSeq)], Cells)
        candidates ==
            IF d = 0 \/ \E j \in Cells : num[j] % Abs(d) # 0 THEN {}
            ELSE {[j \in Cells |-> (IF d > 0 THEN num[j] ELSE -num[j]) \div Abs(d)]}
    IN {p \in candidates :
           /\ matrix_eq(p, occupied_centered, accessible) = rhs
           /\ \A z \in Z : SumOver([c \in Cells |-> p[c] * z[c]], Cells) = 0}

\* lines 50-51: extrapolate the occupied velocities by one cell, then mask
VelocityField(velocity, occupied_staggered, accessible) ==
    MulGrid(ExtrapolateValid(MulGrid(velocity, occupied_staggered), occupied_staggered),
            accessible)

\* line 69 without the accessibility mask (a mutant of GradP)
GradPNoMask(pressure, accessible) == SpatialGradient(pressure)

\* line 69: gradp = spatial_gradient(pressure) * accessible
GradP(pressure, accessible) == MulGrid(SpatialGradient(pressure), accessible)

\* ------------------------------------------------------------ projection state
VARIABLES
    call,            \* the function called
    velocity,        \* make_incompressible: the velocity argument (on Faces)
    particles,       \* make_incompressible: the half-cell positions holding a particle
    obstacles,       \* a StaggeredGrid mask or a sequence of Obstacle objects
    mask_type,       \* accessible_mask: the type argument
    status,          \* "called", "returned" or the error raised
    warned,          \* a DeprecationWarning was emitted
    velocity_field,  \* make_incompressible: local velocity_field (line 51)
    div,             \* make_incompressible: local div (line 52)
    pressure,        \* the pressure returned by the solve
    result           \* the value returned (velocity grid or mask)

projVars == <<call, velocity, particles, obstacles, mask_type, status, warned,
              velocity_field, div, pressure, result>>

ObstacleGeoms == {Geometry(0, 2 * NumCells), Geometry(2, 3)}

ObstacleSeqs == {<<>>} \cup {<<Obstacle(g)>> : g \in ObstacleGeoms}

MaskTypes == {ClassOf("CenteredGrid"), ClassOf("StaggeredGrid"),
              InstanceOf("CenteredGrid"), ClassOf("PointCloud")}

ParticleSets == {S \in SUBSET HalfPositions : Cardinality(S) <= 2}

GridObstacles == {[kind |-> "StaggeredGrid", values |-> m] : m \in [Faces -> {0, 1}]}

SeqObstacles == {[kind |-> "sequence", items |-> s] : s \in ObstacleSeqs}

\* union(*[obstacle.geometry for obstacle in obstacles])
ObstacleGeometries(items) == [i \in DOMAIN items |-> items[i].geometry]

InitProjection ==
    /\ status = "called"
    /\ warned = FALSE
    /\ velocity_field = None /\ div = None /\ pressure = None /\ result = None
    /\ \/ /\ call = "make_incompressible"
          /\ velocity \in [Faces -> VelValues]
          /\ particles \in ParticleSets
          /\ obstacles \in GridObstacles \cup SeqObstacles
          /\ mask_type = None
       \/ /\ call = "accessible_mask"
          /\ velocity = None /\ particles = None
          /\ obstacles \in SeqObstacles
          /\ mask_type \in MaskTypes

\* lines 35-70
MakeIncompressible ==
    /\ call = "make_incompressible" /\ status = "called"
    /\ LET occupied_centered == RasterCentered(particles)
           occupied_staggered == RasterStaggered(particles)
           am == IF obstacles.kind = "StaggeredGrid"
                 THEN [warned |-> FALSE, raised |-> FALSE, mask |-> obstacles.values]
                 ELSE accessible_mask(ObstacleGeometries(obstacles.items),
                                      ClassOf("StaggeredGrid"))
       IN  /\ warned' = am.warned
           /\ IF am.raised
              THEN /\ status' = "AssertionError"
                   /\ UNCHANGED <<velocity_field, div, pressure, result>>
              ELSE LET accessible == am.mask
                       vf == VelocityField(velocity, occupied_staggered, accessible)
                       d == MulGrid(Divergence(vf), occupied_centered)
                   IN /\ velocity_field' = vf
                      /\ div' = d
                      /\ \/ \E p \in SolveLinear(d, occupied_centered, accessible) :
                              /\ pressure' = p
                              /\ result' = SubGrid(vf, GradP(p, accessible))
                              /\ status' = "returned"
                         \/ /\ status' = "ConvergenceError"
                            /\ UNCHANGED <<pressure, result>>
    /\ UNCHANGED <<call, velocity, particles, obstacles, mask_type>>

\* lines 136-152, called directly
AccessibleMask ==
    /\ call = "accessible_mask" /\ status = "called"
    /\ LET am == accessible_mask(ObstacleGeometries(obstacles.items), mask_type)
       IN /\ warned' = am.warned
          /\ status' = IF am.raised THEN "AssertionError" ELSE "returned"
          /\ result' = am.mask
    /\ UNCHANGED <<call, velocity, particles, obstacles, mask_type,
                   velocity_field, div, pressure>>

\* --------------------------------------------- flip.map_velocity_to_particles
\* The grids of the transfer live on GridPoints.  A particle position q is
\* counted in half grid steps: an even q is the sample point q / 2, an odd q
\* lies midway between the sample points (q - 1) / 2 and (q + 1) / 2.
GridPoints == 0 .. 2

CloudPositions == 0 .. 4

\* Grid values are multiples of 16 and particle values multiples of 4: the
\* means of extrapolation and interpolation halve a grid value at most twice,
\* so every sampled value is a multiple of 4 and the blend divides exactly.
GridValues == {0, 16}

ParticleValues == {0, 4}

MaxParticles == 1

\* the float 1. in the model's unit of viscosity (quarters)
One == 4

\* -0.25, 0, 0.25, 0.5, 0.75, 1 and 1.25
ViscosityArgs == -1 .. 5

\* grid @ cloud: linear interpolation of the grid at position q
Sample(grid, q) ==
    IF q % 2 = 0 THEN grid[q \div 2]
    ELSE (grid[(q - 1) \div 2] + grid[(q + 1) \div 2]) \div 2

\* line 95 without the clamp (a mutant of Clamp)
NoClamp(v) == v

\* line 95: viscosity = min(max(0., viscosity), 1.)
Clamp(v) == Min2(Max2(0, v), One)

\* lines 95-97
EffectiveViscosity(v, previous_velocity_grid) ==
    IF IsNone(previous_velocity_grid) THEN One ELSE Clamp(v)

\* line 105 on the grid as the caller passed it (a mutant of ChangeField)
ChangeFieldOfArgument(local_grid, argument_grid, previous_velocity_grid) ==
    SubGrid(argument_grid, previous_velocity_grid[1])

\* line 105: v_change_field = velocity_grid - previous_velocity_grid, where
\* velocity_grid is the local name, rebound by line 101 when the PIC branch ran
ChangeField(local_grid, argument_grid, previous_velocity_grid) ==
    SubGrid(local_grid, previous_velocity_grid[1])

\* line 102: the weight of the PIC part, v_particles += viscosity * (...)
PicWeight(visc) == visc

\* line 108 weighting the FLIP part by viscosity (a mutant of FlipWeight)
FlipWeightSwapped(visc) == visc

\* line 108: the weight of the FLIP part, v_particles += (1 - viscosity) * (...)
FlipWeight(visc) == One - visc

\* line 102 sampling the grid without extrapolating it (a mutant of PicGrid)
PicGridNoExtrapolation(grid, occupation_mask) == grid

\* line 101: velocity_grid, _ = extrapolate_valid(velocity_grid, occupation_mask)
PicGrid(grid, occupation_mask) == ExtrapolateValid(grid, occupation_mask)

VARIABLES
    previous_particle_velocity,  \* argument: the cloud, a sequence of [pos, value]
    velocity_grid_arg,           \* argument velocity_grid
    occupation_mask,             \* argument
    previous_velocity_grid,      \* argument, a grid or None
    viscosity_arg,               \* argument viscosity (in quarters)
    viscosity,                   \* local viscosity after lines 95-97
    velocity_grid,               \* local velocity_grid when the function returns
    v_change_diff,               \* local v_change_field after line 105
    v_change_field,              \* local v_change_field after line 106
    map_status,                  \* "called" or "returned"
    map_result                   \* the cloud returned

mapVars == <<previous_particle_velocity, velocity_grid_arg, occupation_mask,
             previous_velocity_grid, viscosity_arg, viscosity, velocity_grid,
             v_change_diff, v_change_field, map_status, map_result>>

Particle(pos, value) == [pos |-> pos, value |-> value]

ParticleSet == {Particle(q, v) : q \in CloudPositions, v \in ParticleValues}

Clouds == UNION {[1 .. n -> ParticleSet] : n \in 1 .. MaxParticles}

InitTransfer ==
    /\ previous_particle_velocity \in Clouds
    /\ velocity_grid_arg \in [GridPoints -> GridValues]
    /\ occupation_mask \in [GridPoints -> {0, 1}]
    /\ previous_velocity_grid \in {Nothing} \cup {Some(g) : g \in [GridPoints -> GridValues]}
    /\ viscosity_arg \in ViscosityArgs
    /\ viscosity = None /\ velocity_grid = None
    /\ v_change_diff = None /\ v_change_field = None
    /\ map_status = "called" /\ map_result = None

\* lines 95-109.  The velocities are kept multiplied by One, the unit of
\* viscosity, and divided by it once at the end (the division is exact).
MapVelocityToParticles ==
    /\ map_status = "called"
    /\ LET cloud == previous_particle_velocity
           visc == EffectiveViscosity(viscosity_arg, previous_velocity_grid)
           pic == visc > 0
           flip == visc < One
           grid == IF pic THEN PicGrid(velocity_grid_arg, occupation_mask)
                   ELSE velocity_grid_arg
           diff == IF flip
                   THEN ChangeField(grid, velocity_grid_arg, previous_velocity_grid)
                   ELSE None
           change == IF flip THEN ExtrapolateValid(diff, occupation_mask) ELSE None
           picTerm(i) ==
               IF pic THEN PicWeight(visc) * Sample(grid, cloud[i].pos) ELSE 0
           flipTerm(i) ==
               IF flip
               THEN FlipWeight(visc) * (cloud[i].value + Sample(change, cloud[i].pos))
               ELSE 0
       IN /\ viscosity' = visc
          /\ velocity_grid' = grid
          /\ v_change_diff' = diff
          /\ v_change_field' = change
          /\ map_result' = [i \in DOMAIN cloud |->
                              Particle(cloud[i].pos, (picTerm(i) + flipTerm(i)) \div One)]
          /\ map_status' = "returned"
    /\ UNCHANGED <<previous_particle_velocity, velocity_grid_arg, occupation_mask,
                   previous_velocity_grid, viscosity_arg>>

\* ---------------------------------------------------- flip.respect_boundaries
\* Positions are integers counted in half length units, so that the default
\* offset 0.5 is 1.  The bounds of a cloud are the box [0, DomainSize] or None.
DomainSize == 8

Offsets == {0, 1}

RbPositions == -2 .. (DomainSize + 2)

\* Sphere(center, radius) in one dimension: the interval around the centre
Ball(center, radius) == Geometry(center - radius, center + radius)

\* the distance from x to the surface of g, negative inside g
SignedDistance(g, x) == Max2(g.lo - x, x - g.hi)

\* geometry.push(x, shift_amount=s): a point closer than s to the geometry
\* (or inside it) moves to the nearest point at distance s outside it; the
\* result is one of the set (two when both sides are equally near)
Push(g, x, s) ==
    IF SignedDistance(g, x) >= s THEN {x}
    ELSE LET targets == {g.lo - s, g.hi + s}
         IN {y \in targets : \A z \in targets : Abs(y - x) <= Abs(z - x)}

\* (~bounds).push(x, shift_amount=s): a point outside the box, or closer than
\* s to its wall, moves to the nearest point at distance s inside it
PushIntoBounds(bounds, x, s) ==
    IF x < bounds.lo + s THEN bounds.lo + s
    ELSE IF x > bounds.hi - s THEN bounds.hi - s
    ELSE x

\* lines 129-130: if isinstance(obj, Obstacle): obj = obj.geometry
GeometryOf(obj) == IF obj.kind = "Obstacle" THEN obj.geometry ELSE obj.geometry

\* line 131 with shift_amount left at its default 0 (a mutant of PushOut)
PushOutDefaultShift(obj, x, s) == Push(GeometryOf(obj), x, 0)

\* lines 129-131: obj.push(new_positions, shift_amount=offset), one particle
PushOut(obj, x, s) == Push(GeometryOf(obj), x, s)

\* line 131 on the whole tensor of positions: every way the particles can end
PushAll(obj, positions, s) ==
    LET D == DOMAIN positions
        targets == UNION {PushOut(obj, positions[k], s) : k \in D}
    IN {m \in [D -> targets] : \A k \in D : m[k] \in PushOut(obj, positions[k], s)}

\* line 132: (~bounds).push(new_positions, shift_amount=offset), one particle
PushIn(bounds, x, s) == PushIntoBounds(bounds, x, s)

\* line 125 with the assertion dropped (a mutant of BoundsAreSet)
BoundsNotChecked(bounds) == TRUE

\* line 125: assert particles._bounds is not None
BoundsAreSet(bounds) == ~IsNone(bounds)

VARIABLES
    rb_bounds,        \* particles._bounds: a box or None
    rb_positions,     \* particles.elements.center, a sequence of positions
    not_accessible,   \* argument: a sequence of Obstacle or Geometry objects
    offset,           \* argument
    rb_pc,            \* "called", "loop", "returned" or "AssertionError"
    rb_i,             \* the number of objects of not_accessible pushed so far
    new_positions,    \* local new_positions (empty while unbound)
    last_moved,       \* history: per particle, the last push that moved it
    rb_result         \* the cloud returned, or Nothing

rbVars == <<rb_bounds, rb_positions, not_accessible, offset, rb_pc, rb_i,
            new_positions, last_moved, rb_result>>

Box(lo, hi) == Geometry(lo, hi)

RbGeometries == {Ball(c, r) : c \in 2 .. (DomainSize - 2), r \in {1, 2}}

RbObjects == {GeometryObject(g) : g \in RbGeometries}
                 \cup {Obstacle(g) : g \in RbGeometries}

RbLists == {<<>>} \cup {<<a>> : a \in RbObjects}
               \cup {<<Obstacle(g), GeometryObject(h)>> : g \in RbGeometries, h \in RbGeometries}

InitBoundaries ==
    /\ rb_bounds \in {Nothing, Some(Box(0, DomainSize))}
    /\ rb_positions \in UNION {[1 .. n -> RbPositions] : n \in 1 .. 2}
    /\ not_accessible \in RbLists
    /\ offset \in Offsets
    /\ rb_pc = "called" /\ rb_i = 0
    /\ new_positions = <<>>
    /\ last_moved = [k \in DOMAIN rb_positions |-> 0]
    /\ rb_result = Nothing

\* lines 125-127: the assertion, then new_positions = particles.elements.center
RbEnter ==
    /\ rb_pc = "called"
    /\ IF ~BoundsAreSet(rb_bounds)
       THEN /\ rb_pc' = "AssertionError"
            /\ UNCHANGED new_positions
       ELSE /\ rb_pc' = "loop"
            /\ new_positions' = rb_positions
    /\ UNCHANGED <<rb_bounds, rb_positions, not_accessible, offset, rb_i,
                   last_moved, rb_result>>

\* lines 128-131: one iteration of the loop over not_accessible
RbPush ==
    /\ rb_pc = "loop" /\ rb_i < Len(not_accessible)
    /\ \E moved \in PushAll(not_accessible[rb_i + 1], new_positions, offset) :
          /\ new_positions' = moved
          /\ last_moved' = [k \in DOMAIN new_positions |->
                              IF moved[k] # new_positions[k] THEN rb_i + 1
                              ELSE last_moved[k]]
    /\ rb_i' = rb_i + 1
    /\ UNCHANGED <<rb_bounds, rb_positions, not_accessible, offset, rb_pc, rb_result>>

\* lines 132-133: the push into the bounds, and the cloud returned
RbReturn ==
    /\ rb_pc = "loop" /\ rb_i = Len(not_accessible)
    /\ LET final == [k \in DOMAIN new_positions |->
                        PushIn(rb_bounds[1], new_positions[k], offset)]
       IN /\ new_positions' = final
          /\ last_moved' = [k \in DOMAIN new_positions |->
                              IF final[k] # new_positions[k] THEN rb_i + 1
                              ELSE last_moved[k]]
          /\ rb_result' = Some([bounds |-> rb_bounds[1], positions |-> final])
    /\ rb_pc' = "returned"
    /\ UNCHANGED <<rb_bounds, rb_positions, not_accessible, offset, rb_i>>

\* ------------------------------------------------------ GeometryMask.sample_at
MaxGeometries == 3

MaskPoints == 0 .. 4

MaskValues == -2 .. 2

MaskGeometries == {g \in {Geometry(lo, hi) : lo \in {0, 1, 3}, hi \in {1, 3, 4}} : g.lo <= g.hi}

RECURSIVE MaxOver(_, _)
\* math.max(values, axis=0) of a non-empty sequence of numbers
MaxOver(vals, n) ==
    IF n = 1 THEN vals[1] ELSE Max2(vals[n], MaxOver(vals, n - 1))

RECURSIVE MinOver(_, _)
MinOver(vals, n) ==
    IF n = 1 THEN vals[1] ELSE Min2(vals[n], MinOver(vals, n - 1))

\* lines 17-24 with the first geometry alone whatever their number (a mutant)
sample_at_first(geoms, data, x) ==
    IF Len(geoms) = 0 THEN 0 ELSE ValueAt(geoms[1], x) * data

\* lines 17-24 with the minimum in place of the maximum (a mutant)
sample_at_min(geoms, data, x) ==
    IF Len(geoms) = 0 THEN 0
    ELSE MinOver([i \in DOMAIN geoms |-> ValueAt(geoms[i], x)], Len(geoms)) * data

\* lines 17-24: the value of the mask at the query point x
sample_at(geoms, data, x) ==
    IF Len(geoms) = 0 THEN 0
    ELSE IF Len(geoms) = 1 THEN ValueAt(geoms[1], x) * data
    ELSE MaxOver([i \in DOMAIN geoms |-> ValueAt(geoms[i], x)], Len(geoms)) * data

VARIABLES
    geometries,    \* GeometryMask.geometries, a tuple
    data,          \* GeometryMask.data, the constant value
    mask_status,   \* "built" or "sampled"
    sampled        \* the field returned by sample_at, on MaskPoints

maskVars == <<geometries, data, mask_status, sampled>>

InitMask ==
    /\ geometries \in UNION {[1 .. n -> MaskGeometries] : n \in 0 .. MaxGeometries}
    /\ data \in MaskValues
    /\ mask_status = "built"
    /\ sampled = None

\* lines 17-24, at every query point
SampleAt ==
    /\ mask_status = "built"
    /\ sampled' = [x \in MaskPoints |-> sample_at(geometries, data, x)]
    /\ mask_status' = "sampled"
    /\ UNCHANGED <<geometries, data>>

\* ------------------------------------------------------------ specifications
vars == <<projVars, mapVars, rbVars, maskVars>>

IdleProjection ==
    /\ call = None /\ velocity = None /\ particles = None /\ obstacles = None
    /\ mask_type = None /\ status = None /\ warned = FALSE
    /\ velocity_field = None /\ div = None /\ pressure = None /\ result = None

IdleTransfer ==
    /\ previous_particle_velocity = None /\ velocity_grid_arg = None
    /\ occupation_mask = None /\ previous_velocity_grid = None
    /\ viscosity_arg = None /\ viscosity = None /\ velocity_grid = None
    /\ v_change_diff = None /\ v_change_field = None
    /\ map_status = None /\ map_result = None

IdleBoundaries ==
    /\ rb_bounds = None /\ rb_positions = None /\ not_accessible = None
    /\ offset = None /\ rb_pc = None /\ rb_i = 0
    /\ new_positions = <<>> /\ last_moved = <<>> /\ rb_result = Nothing

IdleMask ==
    /\ geometries = None /\ data = None /\ mask_status = None /\ sampled = None

\* the projection solver and the deprecated mask helper
NextProjection ==
    \/ MakeIncompressible /\ UNCHANGED <<mapVars, rbVars, maskVars>>
    \/ AccessibleMask /\ UNCHANGED <<mapVars, rbVars, maskVars>>

InitProjectionSpec == InitProjection /\ IdleTransfer /\ IdleBoundaries /\ IdleMask

SpecProjection == InitProjectionSpec /\ [][NextProjection]_vars

\* the particle-grid velocity transfer
NextTransfer == MapVelocityToParticles /\ UNCHANGED <<projVars, rbVars, maskVars>>

InitTransferSpec == InitTransfer /\ IdleProjection /\ IdleBoundaries /\ IdleMask

SpecTransfer == InitTransferSpec /\ [][NextTransfer]_vars

\* the boundary enforcement
NextBoundaries ==
    \/ RbEnter /\ UNCHANGED <<projVars, mapVars, maskVars>>
    \/ RbPush /\ UNCHANGED <<projVars, mapVars, maskVars>>
    \/ RbReturn /\ UNCHANGED <<projVars, mapVars, maskVars>>

InitBoundariesSpec == InitBoundaries /\ IdleProjection /\ IdleTransfer /\ IdleMask

SpecBoundaries == InitBoundariesSpec /\ [][NextBoundaries]_vars

\* the mask builder
NextMask == SampleAt /\ UNCHANGED <<projVars, mapVars, rbVars>>

InitMaskSpec == InitMask /\ IdleProjection /\ IdleTransfer /\ IdleBoundaries

SpecMask == InitMaskSpec /\ [][NextMask]_vars

\* ===================================================================== claims

\* ---------------------------------------------------------------- projection
Returned == call = "make_incompressible" /\ status = "returned"

\* C1: when make_incompressible returns (the pressure solve converged), the
\* divergence of the returned velocity is 0 in every cell that holds at least
\* one particle (exactly 0 here: the solve tolerance is below one unit).
C1_DivergenceFreeWhereOccupied ==
    Returned =>
        \A c \in Cells :
            RasterCentered(particles)[c] = 1 => Divergence(result)[c] = 0

\* C1 witness: a returned projection of a velocity whose divergence in an
\* occupied cell was not 0, corrected by a nonzero pressure
\* gradient across a partly blocked grid.
C1_Witness ==
    /\ Returned
    /\ \E c \in Cells : RasterCentered(particles)[c] = 1 /\ div[c] # 0
    /\ result # velocity_field
    /\ \E f \in Faces : obstacles.values[f] = 0
    /\ \E f \in Faces : obstacles.values[f] = 1

\* pressures a solve might return, to state "whatever the pressure"
PressureProbes == {-VelUnit, 0, 5}

\* C2: in the velocity returned by make_incompressible every face whose
\* accessibility mask is 0 carries velocity exactly 0, whatever the input
\* velocity and whatever pressure the solve returned.
C2_BlockedFacesCarryZero ==
    Returned =>
        \A f \in Faces :
            obstacles.values[f] = 0 =>
                /\ result[f] = 0
                /\ \A q \in [Cells -> PressureProbes] :
                      SubGrid(velocity_field, GradP(q, obstacles.values))[f] = 0

\* C2 witness: a blocked face that held an occupied, nonzero input velocity
\* and across which the solved pressure has a nonzero gradient.
C2_Witness ==
    /\ Returned
    /\ \E f \in Faces :
          /\ obstacles.values[f] = 0
          /\ velocity[f] # 0
          /\ RasterStaggered(particles)[f] = 1
          /\ SpatialGradient(pressure)[f] # 0

\* C3: with obstacles given as a sequence of Obstacle objects (the empty
\* default included) make_incompressible builds the mask through
\* accessible_mask(..., type=StaggeredGrid), which only warns, so execution
\* reaches the pressure solve; and accessible_mask called with
\* type=CenteredGrid or type=StaggeredGrid never ends in an error.
C3_DeprecatedHelperIsNonFatal ==
    /\ (call = "make_incompressible" /\ status # "called"
            /\ obstacles.kind = "sequence")
          => (warned /\ status \in {"returned", "ConvergenceError"})
    /\ (call = "accessible_mask" /\ status # "called"
            /\ mask_type \in {ClassOf("CenteredGrid"), ClassOf("StaggeredGrid")})
          => (warned /\ status = "returned")

\* ------------------------------------------------------------------ transfer
Transferred == map_status = "returned"

SamePositions ==
    /\ DOMAIN map_result = DOMAIN previous_particle_velocity
    /\ \A i \in DOMAIN map_result :
          map_result[i].pos = previous_particle_velocity[i].pos

\* sample(extrapolate(post)) at the position of particle i, post being the
\* grid the caller passed
PicSample(i) ==
    Sample(ExtrapolateValid(velocity_grid_arg, occupation_mask),
           previous_particle_velocity[i].pos)

\* sample(extrapolate(post - pre)) at the position of particle i
FlipSample(i) ==
    Sample(ExtrapolateValid(SubGrid(velocity_grid_arg, previous_velocity_grid[1]),
                            occupation_mask),
           previous_particle_velocity[i].pos)

\* C4: without a previous_velocity_grid (whatever the viscosity) or with a
\* viscosity of 1 or more, the transfer is pure PIC: every returned velocity
\* is the extrapolated post-projection grid sampled at the particle, whatever
\* the particle's prior velocity, and the positions are those of the input.
C4_PurePIC ==
    (Transferred /\ (IsNone(previous_velocity_grid) \/ viscosity_arg >= One)) =>
        /\ SamePositions
        /\ \A i \in DOMAIN map_result : map_result[i].value = PicSample(i)

\* C4 witness: no previous grid, a viscosity argument of 0, and a particle
\* in an unoccupied spot whose prior velocity differs from the one returned.
C4_Witness ==
    /\ Transferred
    /\ IsNone(previous_velocity_grid)
    /\ viscosity_arg = 0
    /\ \E i \in DOMAIN map_result :
          /\ map_result[i].value # previous_particle_velocity[i].value
          /\ map_result[i].value # Sample(velocity_grid_arg, map_result[i].pos)
          /\ previous_particle_velocity[i].value # 0

\* C5: with a previous_velocity_grid and a viscosity of 0 or less, the
\* transfer is pure FLIP: every returned velocity is the particle's previous
\* velocity plus the extrapolated (post - pre) field sampled at the particle,
\* and the PIC branch is skipped (the grid is never extrapolated).
C5_PureFLIP ==
    (Transferred /\ ~IsNone(previous_velocity_grid) /\ viscosity_arg <= 0) =>
        /\ SamePositions
        /\ velocity_grid = velocity_grid_arg
        /\ \A i \in DOMAIN map_result :
              map_result[i].value =
                  previous_particle_velocity[i].value + FlipSample(i)

\* C5 witness: a negative viscosity argument, a nonzero sampled change and a
\* nonzero prior velocity, on a grid the PIC branch would have changed.
C5_Witness ==
    /\ Transferred
    /\ ~IsNone(previous_velocity_grid)
    /\ viscosity_arg < 0
    /\ ExtrapolateValid(velocity_grid_arg, occupation_mask) # velocity_grid_arg
    /\ \E i \in DOMAIN map_result :
          /\ FlipSample(i) # 0
          /\ previous_particle_velocity[i].value # 0

Blended == Transferred /\ ~IsNone(previous_velocity_grid)
               /\ 0 < viscosity_arg /\ viscosity_arg < One

\* the blend of the claim, multiplied by One (the unit of viscosity)
BlendHolds ==
    \A i \in DOMAIN map_result :
        One * map_result[i].value =
            viscosity_arg * PicSample(i)
            + (One - viscosity_arg)
                  * (previous_particle_velocity[i].value + FlipSample(i))

\* C10 as stated: for a viscosity strictly between 0 and 1 with a previous
\* grid, each returned velocity is the blend of PIC and FLIP, and the FLIP
\* change field is computed from the post-projection grid as passed in (not
\* yet extrapolated) minus the pre-projection grid.
C10_ChangeFromOriginalGrid ==
    Blended =>
        /\ BlendHolds
        /\ v_change_diff = SubGrid(velocity_grid_arg, previous_velocity_grid[1])

\* C10 amended: the returned velocities are the blend of the claim, but the
\* change field of line 105 is computed from the post-projection grid as
\* already extrapolated by the PIC branch, minus the pre-projection grid;
\* extrapolating it gives the same field as extrapolating (post - pre).
C10_ChangeFromExtrapolatedGrid ==
    Blended =>
        /\ BlendHolds
        /\ velocity_grid = ExtrapolateValid(velocity_grid_arg, occupation_mask)
        /\ v_change_diff = SubGrid(velocity_grid, previous_velocity_grid[1])
        /\ v_change_field =
              ExtrapolateValid(SubGrid(velocity_grid_arg, previous_velocity_grid[1]),
                               occupation_mask)

\* C10 witness: a blended transfer with unequal weights (a viscosity of 0.25
\* or 0.75) in which the change field of line 105 differs from (post - pre),
\* with a particle whose PIC and FLIP parts differ.
C10_Witness ==
    /\ Blended
    /\ viscosity_arg # One - viscosity_arg
    /\ v_change_diff # SubGrid(velocity_grid_arg, previous_velocity_grid[1])
    /\ \E i \in DOMAIN map_result :
          PicSample(i) # previous_particle_velocity[i].value + FlipSample(i)

\* ---------------------------------------------------------------- boundaries
RbReturned == rb_pc = "returned"

\* the particle at x lies outside g, at distance s or more from its surface
Clear(g, x, s) == x <= g.lo - s \/ x >= g.hi + s

\* the particle at x lies inside the bounds eroded by s
InsideEroded(bounds, x, s) == bounds.lo + s <= x /\ x <= bounds.hi - s

\* g dilated by s lies inside the bounds eroded by s
DilatedInsideEroded(g, bounds, s) ==
    bounds.lo + s <= g.lo - s /\ g.hi + s <= bounds.hi - s

\* C6 as stated: after respect_boundaries returns, every particle lies
\* outside every listed region at distance >= offset from its surface, and
\* inside the bounds eroded by offset.
C6_ClearOfEveryRegion ==
    RbReturned =>
        \A k \in DOMAIN new_positions :
            /\ InsideEroded(rb_bounds[1], new_positions[k], offset)
            /\ \A j \in DOMAIN not_accessible :
                  Clear(GeometryOf(not_accessible[j]), new_positions[k], offset)

\* C6 amended: right after the push of a listed region every particle is
\* at distance >= offset outside that region; after the return every
\* particle lies inside the bounds eroded by offset, and at distance >=
\* offset outside every listed region that was pushed at or after the last
\* push that moved the particle (a later push, of a later region or of the
\* bounds, may move it back towards an earlier region).  A single listed
\* region whose dilation by offset lies inside the eroded bounds is cleared
\* by every particle.
C6_ClearOfRegionsNotUndone ==
    /\ (rb_pc = "loop" /\ rb_i >= 1) =>
          \A k \in DOMAIN new_positions :
              Clear(GeometryOf(not_accessible[rb_i]), new_positions[k], offset)
    /\ RbReturned =>
          \A k \in DOMAIN new_positions :
              /\ InsideEroded(rb_bounds[1], new_positions[k], offset)
              /\ \A j \in DOMAIN not_accessible :
                    j >= last_moved[k] =>
                        Clear(GeometryOf(not_accessible[j]), new_positions[k], offset)
    /\ (RbReturned /\ Len(not_accessible) = 1
            /\ DilatedInsideEroded(GeometryOf(not_accessible[1]), rb_bounds[1], offset)) =>
          \A k \in DOMAIN new_positions :
              Clear(GeometryOf(not_accessible[1]), new_positions[k], offset)

\* C6 witness: the scenario of the claim, a single sphere of radius 1 (2 half
\* units), offset 0.5 (1 half unit), every particle starting inside the
\* sphere and ending at distance >= 1.5 (3 half units) from its centre.
C6_Witness ==
    /\ RbReturned
    /\ offset = 1
    /\ Len(new_positions) = 2
    /\ \E c \in 3 .. (DomainSize - 3) :
          /\ not_accessible = <<GeometryObject(Ball(c, 2))>>
          /\ \A k \in DOMAIN rb_positions :
                /\ Abs(rb_positions[k] - c) < 2
                /\ Abs(new_positions[k] - c) >= 3

\* C7: respect_boundaries on a cloud without bounds fails with the
\* precondition error before any push is applied and returns no cloud; with
\* bounds set the precondition check never fails.
C7_BoundsPrecondition ==
    /\ (rb_pc # "called" /\ IsNone(rb_bounds)) =>
          /\ rb_pc = "AssertionError"
          /\ rb_i = 0
          /\ new_positions = <<>>
          /\ IsNone(rb_result)
    /\ (rb_pc # "called" /\ ~IsNone(rb_bounds)) => rb_pc # "AssertionError"

\* C7 witness: a cloud without bounds, inside a listed obstacle, whose call
\* has failed.
C7_Witness ==
    /\ rb_pc = "AssertionError"
    /\ IsNone(rb_bounds)
    /\ Len(not_accessible) >= 1
    /\ \E k \in DOMAIN rb_positions :
          ~Clear(GeometryOf(not_accessible[1]), rb_positions[k], offset)

\* ---------------------------------------------------------------------- mask
Sampled == mask_status = "sampled"

\* the indicator values of the held geometries at x
Indicators(x) == {ValueAt(geometries[i], x) : i \in DOMAIN geometries}

\* the greatest element of a non-empty set of numbers
Greatest(S) == CHOOSE m \in S : \A v \in S : v <= m

\* C8: sample_at returns at every query point 0 for a mask of no geometry,
\* value_at * value for a mask of one geometry, and the maximum of the
\* geometries' value_at times value for a mask of several.
C8_SampleAt ==
    Sampled =>
        \A x \in MaskPoints :
            sampled[x] =
                IF Len(geometries) = 0 THEN 0
                ELSE IF Len(geometries) = 1 THEN ValueAt(geometries[1], x) * data
                ELSE Greatest(Indicators(x)) * data

\* C8 witness: a mask of three geometries with a nonzero value, sampled at a
\* point outside the first geometry and inside a later one.
C8_Witness ==
    /\ Sampled
    /\ Len(geometries) = 3
    /\ \E x \in MaskPoints :
          /\ ValueAt(geometries[1], x) = 0
          /\ sampled[x] # 0

Overlapping(g, h) == g.lo <= h.hi /\ h.lo <= g.hi

TwoOverlapping ==
    /\ Sampled
    /\ Len(geometries) = 2
    /\ Overlapping(geometries[1], geometries[2])

\* C9 as stated: for two overlapping geometries and any constant value, the
\* sampled output is the pointwise maximum of the two scaled indicators and
\* is never less than the output of either single-geometry mask.
C9_MaxOfScaledIndicators ==
    TwoOverlapping =>
        \A x \in MaskPoints :
            /\ sampled[x] = Max2(ValueAt(geometries[1], x) * data,
                                 ValueAt(geometries[2], x) * data)
            /\ sampled[x] >= sample_at(<<geometries[1]>>, data, x)
            /\ sampled[x] >= sample_at(<<geometries[2]>>, data, x)

\* C9 amended: for two overlapping geometries the sampled output is the
\* maximum of the two indicators times the value; for a value >= 0 that is
\* the pointwise maximum of the scaled indicators, never less than either
\* single-geometry mask; for a negative value it is their pointwise minimum,
\* never more than either single-geometry mask.
C9_MaxOfIndicatorsScaled ==
    TwoOverlapping =>
        \A x \in MaskPoints :
            LET a == ValueAt(geometries[1], x) * data
                b == ValueAt(geometries[2], x) * data
            IN /\ sampled[x] = Max2(ValueAt(geometries[1], x),
                                    ValueAt(geometries[2], x)) * data
               /\ data >= 0 =>
                     /\ sampled[x] = Max2(a, b)
                     /\ sampled[x] >= sample_at(<<geometries[1]>>, data, x)
                     /\ sampled[x] >= sample_at(<<geometries[2]>>, data, x)
               /\ data < 0 =>
                     /\ sampled[x] = Min2(a, b)
                     /\ sampled[x] <= sample_at(<<geometries[1]>>, data, x)
                     /\ sampled[x] <= sample_at(<<geometries[2]>>, data, x)

\* C9 witness: two overlapping, different geometries and a positive value,
\* sampled at a point that only one of them covers.
C9_Witness ==
    /\ TwoOverlapping
    /\ data > 0
    /\ \E x \in MaskPoints :
          /\ ValueAt(geometries[1], x) # ValueAt(geometries[2], x)
          /\ sampled[x] = data

=============================================================================
